---- MODULE Spec2Model ----
(***************************************************************************)
(* Client-side orchestration core of the Marketing-AI frontend: the shared *)
(* AppContext store (forecastResults, isLoading), the four page            *)
(* controllers (Forecast, ImageGenerator, SloganGenerator, YouTubeQA) and  *)
(* the axios gateway calls they await.                                     *)
(*                                                                         *)
(* Text is a sequence of one-character strings.  A nullable value is a     *)
(* sequence of length 0 (null) or 1 (the value).  A backend call is a      *)
(* record in `inflight` from the moment the handler awaits it until the    *)
(* step in which the promise settles and the rest of the handler runs.     *)
(***************************************************************************)
EXTENDS Integers, Sequences, FiniteSets, TLC

\* ------------------------------------------------------------------ bounds
\* Number of backend calls that can be awaiting their response at once.
MaxInFlight == 2

\* ------------------------------------------------------------- nullables
Null == <<>>
Some(v) == <<v>>

\* ------------------------------------------------------------------ text
Whitespace == {" ", "\t", "\n"}

RECURSIVE trimStart(_)
trimStart(s) ==
    IF s # <<>> /\ Head(s) \in Whitespace THEN trimStart(Tail(s)) ELSE s

RECURSIVE trimEnd(_)
trimEnd(s) ==
    IF s # <<>> /\ s[Len(s)] \in Whitespace
    THEN trimEnd(SubSeq(s, 1, Len(s) - 1))
    ELSE s

\* String.prototype.trim
trim(s) == trimEnd(trimStart(s))

\* JavaScript truthiness of a string: the empty string is falsy.
Truthy(s) == s # <<>>

\* s has the literal lit at position p (1-based).
HasAt(s, p, lit) ==
    /\ p + Len(lit) - 1 <= Len(s)
    /\ SubSeq(s, p, p + Len(lit) - 1) = lit

\* lit occurs in s as a contiguous substring.
Contains(s, lit) == \E p \in 1..(Len(s) + 1) : HasAt(s, p, lit)

DigitChars == <<"0", "1", "2", "3", "4", "5", "6", "7", "8", "9">>

\* Template-literal conversion of a non-negative integer to decimal text.
RECURSIVE NumToStr(_)
NumToStr(n) ==
    IF n < 10 THEN <<DigitChars[n + 1]>>
    ELSE NumToStr(n \div 10) \o <<DigitChars[(n % 10) + 1]>>

\* ------------------------------------------------------- YouTube URL test
WordChars ==
    {"a","b","c","d","e","f","g","h","i","j","k","l","m","n","o","p","q",
     "r","s","t","u","v","w","x","y","z",
     "A","B","C","D","E","F","G","H","I","J","K","L","M","N","O","P","Q",
     "R","S","T","U","V","W","X","Y","Z",
     "0","1","2","3","4","5","6","7","8","9","_"}

\* Positions reachable after optionally consuming one of the literals lits.
Optional(s, P, lits) ==
    P \cup {p + Len(l) : <<p, l>> \in
                {<<q, m>> \in P \X lits : HasAt(s, q, m)}}

\* Positions reachable after consuming exactly one of the literals lits.
OneOf(s, P, lits) ==
    {p + Len(l) : <<p, l>> \in {<<q, m>> \in P \X lits : HasAt(s, q, m)}}

\* /^(https?:\/\/)?(www\.)?(youtube\.com\/watch\?v=|youtu\.be\/)[\w-]+/
youtubeRegex(s) ==
    LET P1 == Optional(s, {1}, {<<"h","t","t","p",":","/","/">>,
                               <<"h","t","t","p","s",":","/","/">>})
        P2 == Optional(s, P1, {<<"w","w","w",".">>})
        P3 == OneOf(s, P2,
                {<<"y","o","u","t","u","b","e",".","c","o","m","/",
                   "w","a","t","c","h","?","v","=">>,
                 <<"y","o","u","t","u",".","b","e","/">>})
    IN  \E p \in P3 : p <= Len(s) /\ s[p] \in (WordChars \cup {"-"})

\* ------------------------------------------------------------ input data
MB == 1024 * 1024

\* Files a user can pick in the Forecast page's inputs: a 2 KB CSV and a
\* CSV one byte over 10 MB.
Files ==
    {[size |-> 2048, ext |-> ".csv"],
     [size |-> 10 * MB + 1, ext |-> ".csv"]}

\* e.target.files?.[0]: a file, or nothing when the picker was cancelled.
Selections == {Null} \cup {Some(f) : f \in Files}

\* ForecastResults values a backend can return.
ResultA ==
    [segment_count |-> 8,
     recommended_campaign_type |-> <<"V","I","P">>,
     recommended_offer |-> <<"2","0","%">>,
     success_probability |-> 76,
     privacy_compliance |-> TRUE,
     campaign_details |->
        [type |-> <<"V","I","P">>, offer |-> <<"2","0","%">>,
         target |-> <<"G","e","n","Z">>, discount |-> 20, budget |-> 500,
         target_size |-> 40]]

ResultB ==
    [segment_count |-> 3,
     recommended_campaign_type |-> <<"S","M","S">>,
     recommended_offer |-> <<"B","1","G","1">>,
     success_probability |-> 41,
     privacy_compliance |-> FALSE,
     campaign_details |->
        [type |-> <<"S","M","S">>, offer |-> <<"B","1","G","1">>,
         target |-> <<"a","l","l">>, discount |-> 5, budget |-> 90,
         target_size |-> 7]]

\* A result that names the same campaign, offer and audience as ResultA
\* and differs from it in every other field.
ResultC ==
    [segment_count |-> 5,
     recommended_campaign_type |-> <<"V","I","P">>,
     recommended_offer |-> <<"2","0","%">>,
     success_probability |-> 52,
     privacy_compliance |-> FALSE,
     campaign_details |->
        [type |-> <<"V","I","P">>, offer |-> <<"2","0","%">>,
         target |-> <<"G","e","n","Z">>, discount |-> 10, budget |-> 200,
         target_size |-> 12]]

ResultValues == {ResultA, ResultB, ResultC}

\* What `await runForecast(...)` can produce: a thrown fault, or
\* response.data with a status and an optional results field.
ForecastResponses ==
    {[throws |-> TRUE, status |-> "error", results |-> Null]}
    \cup [throws : {FALSE}, status : {"success", "error"},
          results : {Null} \cup {Some(v) : v \in ResultValues}]

\* Text a user can type into the prompt / context / question fields.
TypedTexts == {<<>>, <<" ">>, <<"a","d">>}

\* image_url values: missing, the empty string, or a URL.
ImageUrls == {Null, Some(<<>>), Some(<<"u","1">>), Some(<<"u","2">>)}

ImageResponses ==
    {[throws |-> TRUE, image_url |-> Null]}
    \cup [throws : {FALSE}, image_url : ImageUrls]

\* slogans values: missing, a truthy value that is not an array, or an
\* array of strings.
SloganLists == {<<>>, << <<"g","o">>, <<"b","u","y">> >>}

SloganFields ==
    {Null, Some([isArray |-> FALSE, items |-> <<>>])}
    \cup {Some([isArray |-> TRUE, items |-> l]) : l \in SloganLists}

SloganResponses ==
    {[throws |-> TRUE, slogans |-> Null]}
    \cup [throws : {FALSE}, slogans : SloganFields]

\* URLs a user can type into the YouTube URL field.
UrlWithScheme ==
    <<"h","t","t","p","s",":","/","/","y","o","u","t","u",".","b","e","/",
      "a">>
UrlNoScheme == <<"y","o","u","t","u",".","b","e","/","b">>
UrlOther == <<"h","t","t","p",":","/","/","x",".","i","o">>

TypedUrls == {<<>>, UrlOther, UrlNoScheme, UrlWithScheme}

\* URL field contents made of white space only.
BlankUrls == {<<" ">>}

VideoA == [video_id |-> <<"a">>, url |-> UrlWithScheme, chunk_count |-> 42]
VideoB == [video_id |-> <<"b">>, url |-> UrlNoScheme, chunk_count |-> 7]

ProcessResponses ==
    {[throws |-> TRUE, video_info |-> Null]}
    \cup [throws : {FALSE},
          video_info : {Null, Some(VideoA), Some(VideoB)}]

QueryResponses ==
    {[throws |-> TRUE, answer |-> Null]}
    \cup [throws : {FALSE},
          answer : {Null, Some(<<>>), Some(<<"y","e","s">>)}]

\* ----------------------------------------------------------------- state
Pages == {"Dashboard", "Forecast", "ImageGenerator", "SloganGenerator",
          "YouTubeQA"}

VARIABLES
    page,                 \* the route element currently mounted
    forecastResults,      \* AppContext: null or ForecastResults
    isLoading,            \* AppContext: the global busy flag
    customersFile,        \* Forecast page
    campaignHistoryFile,  \* Forecast page
    prompt,               \* ImageGenerator page
    generatedImage,       \* ImageGenerator page
    context,              \* SloganGenerator page
    slogans,              \* SloganGenerator page
    youtubeUrl,           \* YouTubeQA page
    question,             \* YouTubeQA page
    videoInfo,            \* YouTubeQA page
    answer,               \* YouTubeQA page
    isProcessing,         \* YouTubeQA page
    isQuerying,           \* YouTubeQA page
    inflight,             \* backend calls awaiting their response, oldest first
    toast,                \* the toast raised by the last step, or "none"
    latestSucc,           \* history: results of the latest-submitted forecast
                          \*   among those that succeeded
    lastReturned,         \* history: results of the forecast response that
                          \*   succeeded last
    replaced,             \* history: what the store held before the last
                          \*   step wrote it; null if that step did not
    accept,               \* FileUpload prop
    maxSize,              \* FileUpload prop, in MB
    isDragOver,           \* FileUpload widget
    selectedFile,         \* FileUpload widget
    error,                \* FileUpload widget
    ownerFile             \* the file the widget's owner was last handed
                          \*   through onFileSelect

ctxVars == <<forecastResults, isLoading>>
forecastVars == <<customersFile, campaignHistoryFile>>
imageVars == <<prompt, generatedImage>>
sloganVars == <<context, slogans>>
videoVars == <<youtubeUrl, question, videoInfo, answer, isProcessing,
               isQuerying>>
histVars == <<latestSucc, lastReturned>>

\* The input fields of the four pages.
inputVars == <<customersFile, campaignHistoryFile, prompt, context,
               youtubeUrl, question>>

uploadVars == <<accept, maxSize, isDragOver, selectedFile, error, ownerFile>>

appVars == <<page, ctxVars, forecastVars, imageVars, sloganVars, videoVars,
             inflight, toast, histVars, replaced>>

vars == <<appVars, uploadVars>>

\* A FileUpload widget as mounted with the props a and m: nothing
\* selected, no error.
FileUploadInit(a, m) ==
    /\ accept = a
    /\ maxSize = m
    /\ isDragOver = FALSE
    /\ selectedFile = Null
    /\ error = Null
    /\ ownerFile = Null

\* The application can be opened at any route.  No page mounts a
\* FileUpload widget; its variables stay at the props' defaults.
Init ==
    /\ FileUploadInit(<<".","c","s","v">>, 10)
    /\ page \in Pages
    /\ forecastResults = Null
    /\ isLoading = FALSE
    /\ customersFile = Null
    /\ campaignHistoryFile = Null
    /\ prompt = <<>>
    /\ generatedImage = Null
    /\ context = <<>>
    /\ slogans = <<>>
    /\ youtubeUrl = <<>>
    /\ question = <<>>
    /\ videoInfo = Null
    /\ answer = <<>>
    /\ isProcessing = FALSE
    /\ isQuerying = FALSE
    /\ inflight = <<>>
    /\ toast = "none"
    /\ latestSucc = Null
    /\ lastReturned = Null
    /\ replaced = Null

\* A backend call as issued by a handler: the gateway function makes one
\* api.post and returns its promise.  `exchanges` is the number of HTTP
\* round trips started for the call, `reply` the HTTP reply that has
\* arrived for it and is not yet handed to the handler, `live` tells
\* whether the component instance that issued it is still mounted.  History fields:
\* `snap` is, for a forecast call, the stored forecast at the time of
\* submission and, for a video query, the video session at that time;
\* `stale` tells that a forecast submitted later has already succeeded.
Request(op, files, text) ==
    [op |-> op, live |-> TRUE, files |-> files, text |-> text,
     exchanges |-> 1, reply |-> Null,
     snap |-> IF op = "runForecast" THEN forecastResults
              ELSE IF op = "queryVideo" THEN videoInfo
              ELSE Null,
     stale |-> FALSE]

\* Positions in `inflight` of the pending calls of one operation.
InFlight(op) == {i \in 1..Len(inflight) : inflight[i].op = op}

\* Number of pending calls of one operation in a queue of calls.
Count(q, op) == Cardinality({i \in 1..Len(q) : q[i].op = op})

\* Number of pending calls of one operation that were issued by the page
\* instance now mounted.
LiveCount(q, op) ==
    Cardinality({i \in 1..Len(q) : q[i].op = op /\ q[i].live})

\* The handler issues the call and suspends at its await.
Dispatch(op, files, text) ==
    /\ Len(inflight) < MaxInFlight
    /\ inflight' = Append(inflight, Request(op, files, text))

\* The sequence q without its i-th element.
RemoveAt(q, i) == SubSeq(q, 1, i - 1) \o SubSeq(q, i + 1, Len(q))

\* -------------------------------------------------------------- routing
\* Variant of Navigate that treats the stored forecast as page state and
\* drops it with the page.
Navigate_resetsStore(p) ==
    /\ replaced' = Null
    /\ p # page
    /\ page' = p
    /\ customersFile' = Null
    /\ campaignHistoryFile' = Null
    /\ prompt' = <<>>
    /\ generatedImage' = Null
    /\ context' = <<>>
    /\ slogans' = <<>>
    /\ youtubeUrl' = <<>>
    /\ question' = <<>>
    /\ videoInfo' = Null
    /\ answer' = <<>>
    /\ isProcessing' = FALSE
    /\ isQuerying' = FALSE
    /\ inflight' = [i \in 1..Len(inflight) |->
                        [inflight[i] EXCEPT !.live = FALSE]]
    /\ toast' = "none"
    /\ forecastResults' = Null
    /\ UNCHANGED <<isLoading, histVars, uploadVars>>

\* A sidebar link or a browser URL change replaces the mounted page: the
\* old page's state is dropped, the new page starts from its useState
\* initial values, and calls of the old page keep running detached.
Navigate(p) ==
    /\ replaced' = Null
    /\ p # page
    /\ page' = p
    /\ customersFile' = Null
    /\ campaignHistoryFile' = Null
    /\ prompt' = <<>>
    /\ generatedImage' = Null
    /\ context' = <<>>
    /\ slogans' = <<>>
    /\ youtubeUrl' = <<>>
    /\ question' = <<>>
    /\ videoInfo' = Null
    /\ answer' = <<>>
    /\ isProcessing' = FALSE
    /\ isQuerying' = FALSE
    /\ inflight' = [i \in 1..Len(inflight) |->
                        [inflight[i] EXCEPT !.live = FALSE]]
    /\ toast' = "none"
    /\ UNCHANGED <<ctxVars, histVars, uploadVars>>

\* ------------------------------------------------------------- Forecast
\* Variant of handleFileUpload that stores whatever the event carries,
\* also nothing.
handleFileUpload_clearsOnEmpty(type, sel) ==
    /\ replaced' = Null
    /\ page = "Forecast"
    /\ IF type = "customers"
       THEN customersFile' = sel /\ UNCHANGED campaignHistoryFile
       ELSE campaignHistoryFile' = sel /\ UNCHANGED customersFile
    /\ toast' = "none"
    /\ UNCHANGED <<uploadVars, page, ctxVars, imageVars, sloganVars, videoVars,
                   inflight, histVars>>

handleFileUpload(type, sel) ==
    /\ replaced' = Null
    /\ page = "Forecast"
    /\ IF sel # Null
       THEN IF type = "customers"
            THEN customersFile' = sel /\ UNCHANGED campaignHistoryFile
            ELSE campaignHistoryFile' = sel /\ UNCHANGED customersFile
       ELSE UNCHANGED forecastVars
    /\ toast' = "none"
    /\ UNCHANGED <<uploadVars, page, ctxVars, imageVars, sloganVars, videoVars,
                   inflight, histVars>>

\* handleRunForecast up to its await.
handleRunForecast ==
    /\ replaced' = Null
    /\ page = "Forecast"
    /\ IF customersFile = Null \/ campaignHistoryFile = Null
       THEN /\ toast' = "Please upload both CSV files"
            /\ UNCHANGED <<ctxVars, inflight>>
       ELSE /\ isLoading' = TRUE
            /\ Dispatch("runForecast",
                        <<customersFile[1], campaignHistoryFile[1]>>, <<>>)
            /\ toast' = "none"
            /\ UNCHANGED forecastResults
    /\ UNCHANGED <<uploadVars, page, forecastVars, imageVars, sloganVars, videoVars,
                   histVars>>

ForecastOk(resp) ==
    ~resp.throws /\ resp.status = "success" /\ resp.results # Null

\* History: a forecast submitted before position i is superseded once the
\* forecast at position i has succeeded.
Supersede(q, i) ==
    [j \in 1..Len(q) |->
        IF j < i /\ q[j].op = "runForecast"
        THEN [q[j] EXCEPT !.stale = TRUE]
        ELSE q[j]]

\* Variant of runForecastSettles that drops the stored forecast when the
\* run fails.
runForecastSettles_clearsOnFailure(i, resp) ==
    /\ i \in InFlight("runForecast")
    /\ IF ForecastOk(resp)
       THEN /\ forecastResults' = resp.results
            /\ toast' = "Forecast completed successfully!"
            /\ latestSucc' = IF inflight[i].stale THEN latestSucc
                             ELSE resp.results
            /\ lastReturned' = resp.results
            /\ replaced' = forecastResults
            /\ inflight' = RemoveAt(Supersede(inflight, i), i)
       ELSE /\ toast' = IF resp.throws
                        THEN "Failed to run forecast. Please check your connection."
                        ELSE "Forecast failed. Please try again."
            /\ inflight' = RemoveAt(inflight, i)
            /\ forecastResults' = Null
            /\ replaced' = Null
            /\ UNCHANGED histVars
    /\ isLoading' = FALSE
    /\ UNCHANGED <<uploadVars, page, forecastVars, imageVars, sloganVars, videoVars>>

\* Variant of runForecastSettles that stores a result only while the store
\* is empty.
runForecastSettles_keepsFirst(i, resp) ==
    /\ i \in InFlight("runForecast")
    /\ IF ForecastOk(resp)
       THEN /\ forecastResults' = IF forecastResults = Null THEN resp.results
                                  ELSE forecastResults
            /\ toast' = "Forecast completed successfully!"
            /\ latestSucc' = IF inflight[i].stale THEN latestSucc
                             ELSE resp.results
            /\ lastReturned' = resp.results
            /\ replaced' = forecastResults
            /\ inflight' = RemoveAt(Supersede(inflight, i), i)
       ELSE /\ toast' = IF resp.throws
                        THEN "Failed to run forecast. Please check your connection."
                        ELSE "Forecast failed. Please try again."
            /\ inflight' = RemoveAt(inflight, i)
            /\ replaced' = Null
            /\ UNCHANGED <<forecastResults, histVars>>
    /\ isLoading' = FALSE
    /\ UNCHANGED <<uploadVars, page, forecastVars, imageVars, sloganVars, videoVars>>

\* handleRunForecast from its await to the end of finally.
\* Variant of runForecastSettles that drops the response of a call whose
\* page has been unmounted.
runForecastSettles_dropsDetached(i, resp) ==
    /\ i \in InFlight("runForecast")
    /\ IF ForecastOk(resp) /\ inflight[i].live
       THEN /\ forecastResults' = resp.results
            /\ toast' = "Forecast completed successfully!"
            /\ latestSucc' = IF inflight[i].stale THEN latestSucc
                             ELSE resp.results
            /\ lastReturned' = resp.results
            /\ replaced' = forecastResults
            /\ inflight' = RemoveAt(Supersede(inflight, i), i)
       ELSE /\ toast' = IF ForecastOk(resp) THEN "none"
                        ELSE IF resp.throws
                        THEN "Failed to run forecast. Please check your connection."
                        ELSE "Forecast failed. Please try again."
            /\ inflight' = RemoveAt(inflight, i)
            /\ replaced' = Null
            /\ UNCHANGED <<forecastResults, histVars>>
    /\ isLoading' = IF inflight[i].live THEN FALSE ELSE isLoading
    /\ UNCHANGED <<uploadVars, page, forecastVars, imageVars, sloganVars, videoVars>>

runForecastSettles(i, resp) ==
    /\ i \in InFlight("runForecast")
    /\ IF ForecastOk(resp)
       THEN /\ forecastResults' = resp.results
            /\ toast' = "Forecast completed successfully!"
            /\ latestSucc' = IF inflight[i].stale THEN latestSucc
                             ELSE resp.results
            /\ lastReturned' = resp.results
            /\ replaced' = forecastResults
            /\ inflight' = RemoveAt(Supersede(inflight, i), i)
       ELSE /\ toast' = IF resp.throws
                        THEN "Failed to run forecast. Please check your connection."
                        ELSE "Forecast failed. Please try again."
            /\ inflight' = RemoveAt(inflight, i)
            /\ replaced' = Null
            /\ UNCHANGED <<forecastResults, histVars>>
    /\ isLoading' = FALSE
    /\ UNCHANGED <<uploadVars, page, forecastVars, imageVars, sloganVars, videoVars>>

\* Variant of RunForecastButton that stays enabled while a request is
\* pending.
RunForecastButton_noBusy ==
    ~(customersFile = Null \/ campaignHistoryFile = Null)

\* The Run Forecast button's enabled condition.
RunForecastButton ==
    ~(customersFile = Null \/ campaignHistoryFile = Null \/ isLoading)

\* -------------------------------------------------------- ImageGenerator
setPrompt(v) ==
    /\ replaced' = Null
    /\ page = "ImageGenerator"
    /\ prompt' = v
    /\ toast' = "none"
    /\ UNCHANGED <<uploadVars, page, ctxVars, forecastVars, generatedImage, sloganVars,
                   videoVars, inflight, histVars>>

\* Variant of campaignPrompt that also quotes the success probability.
campaignPrompt_quotesProbability(fr) ==
    <<"C","r","e","a","t","e"," ","a"," ","m","a","r","k","e","t","i","n",
      "g"," ","i","m","a","g","e"," ","f","o","r"," ","a"," ">>
    \o fr.recommended_campaign_type
    \o <<" ","c","a","m","p","a","i","g","n"," ","w","i","t","h"," ">>
    \o fr.recommended_offer
    \o <<" ","(">> \o NumToStr(fr.success_probability) \o <<"%",")">>
    \o <<"."," ","T","a","r","g","e","t"," ","a","u","d","i","e","n","c","e",
         ":"," ">>
    \o fr.campaign_details.target
    \o <<"."," ","P","r","o","f","e","s","s","i","o","n","a","l",","," ","m",
         "o","d","e","r","n"," ","d","e","s","i","g","n"," ","w","i","t","h",
         " ","e","n","g","a","g","i","n","g"," ","v","i","s","u","a","l","s",
         ".">>

\* The template literal of generatePromptFromForecast.
campaignPrompt(fr) ==
    <<"C","r","e","a","t","e"," ","a"," ","m","a","r","k","e","t","i","n",
      "g"," ","i","m","a","g","e"," ","f","o","r"," ","a"," ">>
    \o fr.recommended_campaign_type
    \o <<" ","c","a","m","p","a","i","g","n"," ","w","i","t","h"," ">>
    \o fr.recommended_offer
    \o <<"."," ","T","a","r","g","e","t"," ","a","u","d","i","e","n","c","e",
         ":"," ">>
    \o fr.campaign_details.target
    \o <<"."," ","P","r","o","f","e","s","s","i","o","n","a","l",","," ","m",
         "o","d","e","r","n"," ","d","e","s","i","g","n"," ","w","i","t","h",
         " ","e","n","g","a","g","i","n","g"," ","v","i","s","u","a","l","s",
         ".">>

\* Variant of generatePromptFromForecast that consumes the stored forecast.
generatePromptFromForecast_consumes ==
    /\ replaced' = Null
    /\ page = "ImageGenerator"
    /\ IF forecastResults # Null
       THEN /\ prompt' = campaignPrompt(forecastResults[1])
            /\ toast' = "none"
            /\ forecastResults' = Null
       ELSE /\ toast' = "No forecast results available. Please run a forecast first."
            /\ UNCHANGED <<prompt, forecastResults>>
    /\ UNCHANGED <<uploadVars, page, isLoading, forecastVars, generatedImage, sloganVars,
                   videoVars, inflight, histVars>>

generatePromptFromForecast ==
    /\ replaced' = Null
    /\ page = "ImageGenerator"
    /\ IF forecastResults # Null
       THEN prompt' = campaignPrompt(forecastResults[1]) /\ toast' = "none"
       ELSE /\ toast' = "No forecast results available. Please run a forecast first."
            /\ UNCHANGED prompt
    /\ UNCHANGED <<uploadVars, page, ctxVars, forecastVars, generatedImage, sloganVars,
                   videoVars, inflight, histVars>>

\* Variant of handleGenerateImage that does not raise the busy flag.
handleGenerateImage_noBusy ==
    /\ replaced' = Null
    /\ page = "ImageGenerator"
    /\ IF ~Truthy(trim(prompt))
       THEN /\ toast' = "Please enter a prompt for image generation"
            /\ UNCHANGED <<ctxVars, inflight>>
       ELSE /\ Dispatch("generateImage", <<>>, prompt)
            /\ toast' = "none"
            /\ UNCHANGED ctxVars
    /\ UNCHANGED <<uploadVars, page, forecastVars, imageVars, sloganVars, videoVars,
                   histVars>>

\* handleGenerateImage up to its await.
handleGenerateImage ==
    /\ replaced' = Null
    /\ page = "ImageGenerator"
    /\ IF ~Truthy(trim(prompt))
       THEN /\ toast' = "Please enter a prompt for image generation"
            /\ UNCHANGED <<ctxVars, inflight>>
       ELSE /\ isLoading' = TRUE
            /\ Dispatch("generateImage", <<>>, prompt)
            /\ toast' = "none"
            /\ UNCHANGED forecastResults
    /\ UNCHANGED <<uploadVars, page, forecastVars, imageVars, sloganVars, videoVars,
                   histVars>>

ImageOk(resp) ==
    ~resp.throws /\ resp.image_url # Null /\ Truthy(resp.image_url[1])

\* Variant of generateImageSettles whose gateway call posts once more
\* after a transport fault before giving up.
generateImageSettles_retriesOnFault(i, resp) ==
    /\ replaced' = Null
    /\ i \in InFlight("generateImage")
    /\ IF resp.throws /\ inflight[i].exchanges = 1
       THEN /\ inflight' = [inflight EXCEPT ![i].exchanges = 2]
            /\ toast' = "none"
            /\ UNCHANGED <<generatedImage, isLoading>>
       ELSE /\ inflight' = RemoveAt(inflight, i)
            /\ IF ImageOk(resp)
               THEN /\ generatedImage' = IF inflight[i].live
                                         THEN resp.image_url
                                         ELSE generatedImage
                    /\ toast' = "Image generated successfully!"
               ELSE /\ toast' = IF resp.throws
                                THEN "Failed to generate image. Please check your connection."
                                ELSE "Failed to generate image. Please try again."
                    /\ UNCHANGED generatedImage
            /\ isLoading' = FALSE
    /\ UNCHANGED <<uploadVars, page, forecastResults, forecastVars, prompt, sloganVars,
                   videoVars, histVars>>

\* Variant of generateImageSettles that removes the shown image when the
\* request fails.
generateImageSettles_clearsOnFailure(i, resp) ==
    /\ replaced' = Null
    /\ i \in InFlight("generateImage")
    /\ inflight' = RemoveAt(inflight, i)
    /\ IF ImageOk(resp)
       THEN /\ generatedImage' = IF inflight[i].live THEN resp.image_url
                                 ELSE generatedImage
            /\ toast' = "Image generated successfully!"
       ELSE /\ toast' = IF resp.throws
                        THEN "Failed to generate image. Please check your connection."
                        ELSE "Failed to generate image. Please try again."
            /\ generatedImage' = IF inflight[i].live THEN Null
                                 ELSE generatedImage
    /\ isLoading' = FALSE
    /\ UNCHANGED <<uploadVars, page, forecastResults, forecastVars, prompt, sloganVars,
                   videoVars, histVars>>

\* handleGenerateImage from its await to the end of finally.  A state
\* setter of an unmounted component instance has no effect.
generateImageSettles(i, resp) ==
    /\ replaced' = Null
    /\ i \in InFlight("generateImage")
    /\ inflight' = RemoveAt(inflight, i)
    /\ IF ImageOk(resp)
       THEN /\ generatedImage' = IF inflight[i].live THEN resp.image_url
                                 ELSE generatedImage
            /\ toast' = "Image generated successfully!"
       ELSE /\ toast' = IF resp.throws
                        THEN "Failed to generate image. Please check your connection."
                        ELSE "Failed to generate image. Please try again."
            /\ UNCHANGED generatedImage
    /\ isLoading' = FALSE
    /\ UNCHANGED <<uploadVars, page, forecastResults, forecastVars, prompt, sloganVars,
                   videoVars, histVars>>

\* Variant of GenerateImageButton that stays enabled while a request is
\* pending.
GenerateImageButton_noBusy == Truthy(trim(prompt))

\* The Generate Image button's enabled condition.
GenerateImageButton == ~(~Truthy(trim(prompt)) \/ isLoading)

\* The Use Forecast Data button is rendered only with a stored forecast.
UseForecastButton == forecastResults # Null /\ ~isLoading

\* ------------------------------------------------------- SloganGenerator
setContext(v) ==
    /\ replaced' = Null
    /\ page = "SloganGenerator"
    /\ context' = v
    /\ toast' = "none"
    /\ UNCHANGED <<uploadVars, page, ctxVars, forecastVars, imageVars, slogans,
                   videoVars, inflight, histVars>>

\* Variant of campaignContext that prints campaign_details.type on the
\* target audience line.
campaignContext_typeForTarget(fr) ==
    <<"C","a","m","p","a","i","g","n"," ","T","y","p","e",":"," ">>
    \o fr.recommended_campaign_type
    \o <<"\n","O","f","f","e","r",":"," ">>
    \o fr.recommended_offer
    \o <<"\n","T","a","r","g","e","t"," ","A","u","d","i","e","n","c","e",":",
         " ">>
    \o fr.campaign_details.type
    \o <<"\n","D","i","s","c","o","u","n","t",":"," ">>
    \o NumToStr(fr.campaign_details.discount)
    \o <<"%","\n","B","u","d","g","e","t",":"," ","$">>
    \o NumToStr(fr.campaign_details.budget)

\* The template literal of generateContextFromForecast.
campaignContext(fr) ==
    <<"C","a","m","p","a","i","g","n"," ","T","y","p","e",":"," ">>
    \o fr.recommended_campaign_type
    \o <<"\n","O","f","f","e","r",":"," ">>
    \o fr.recommended_offer
    \o <<"\n","T","a","r","g","e","t"," ","A","u","d","i","e","n","c","e",":",
         " ">>
    \o fr.campaign_details.target
    \o <<"\n","D","i","s","c","o","u","n","t",":"," ">>
    \o NumToStr(fr.campaign_details.discount)
    \o <<"%","\n","B","u","d","g","e","t",":"," ","$">>
    \o NumToStr(fr.campaign_details.budget)

\* Variant of generateContextFromForecast that does nothing when the
\* store is empty.
generateContextFromForecast_silent ==
    /\ replaced' = Null
    /\ page = "SloganGenerator"
    /\ IF forecastResults # Null
       THEN context' = campaignContext(forecastResults[1]) /\ toast' = "none"
       ELSE /\ toast' = "none"
            /\ UNCHANGED context
    /\ UNCHANGED <<uploadVars, page, ctxVars, forecastVars, imageVars, slogans,
                   videoVars, inflight, histVars>>

generateContextFromForecast ==
    /\ replaced' = Null
    /\ page = "SloganGenerator"
    /\ IF forecastResults # Null
       THEN context' = campaignContext(forecastResults[1]) /\ toast' = "none"
       ELSE /\ toast' = "No forecast results available. Please run a forecast first."
            /\ UNCHANGED context
    /\ UNCHANGED <<uploadVars, page, ctxVars, forecastVars, imageVars, slogans,
                   videoVars, inflight, histVars>>

\* Variant of handleGenerateSlogans that tests the context without
\* trimming it.
handleGenerateSlogans_noTrim ==
    /\ replaced' = Null
    /\ page = "SloganGenerator"
    /\ IF ~Truthy(context)
       THEN /\ toast' = "Please enter context for slogan generation"
            /\ UNCHANGED <<ctxVars, inflight>>
       ELSE /\ isLoading' = TRUE
            /\ Dispatch("generateSlogan", <<>>, context)
            /\ toast' = "none"
            /\ UNCHANGED forecastResults
    /\ UNCHANGED <<uploadVars, page, forecastVars, imageVars, sloganVars, videoVars,
                   histVars>>

\* handleGenerateSlogans up to its await.
handleGenerateSlogans ==
    /\ replaced' = Null
    /\ page = "SloganGenerator"
    /\ IF ~Truthy(trim(context))
       THEN /\ toast' = "Please enter context for slogan generation"
            /\ UNCHANGED <<ctxVars, inflight>>
       ELSE /\ isLoading' = TRUE
            /\ Dispatch("generateSlogan", <<>>, context)
            /\ toast' = "none"
            /\ UNCHANGED forecastResults
    /\ UNCHANGED <<uploadVars, page, forecastVars, imageVars, sloganVars, videoVars,
                   histVars>>

SlogansOk(resp) ==
    ~resp.throws /\ resp.slogans # Null /\ resp.slogans[1].isArray

\* Variant of generateSloganSettles that takes an empty array for a
\* failure.
generateSloganSettles_emptyIsFailure(i, resp) ==
    /\ replaced' = Null
    /\ i \in InFlight("generateSlogan")
    /\ inflight' = RemoveAt(inflight, i)
    /\ IF SlogansOk(resp) /\ Len(resp.slogans[1].items) > 0
       THEN /\ slogans' = IF inflight[i].live THEN resp.slogans[1].items ELSE slogans
            /\ toast' = "Slogans generated successfully!"
       ELSE /\ toast' = IF resp.throws
                        THEN "Failed to generate slogans. Please check your connection."
                        ELSE "Failed to generate slogans. Please try again."
            /\ UNCHANGED slogans
    /\ isLoading' = FALSE
    /\ UNCHANGED <<uploadVars, page, forecastResults, forecastVars, imageVars, context,
                   videoVars, histVars>>

\* Variant of generateSloganSettles that empties the context field when
\* the request fails.
generateSloganSettles_resetsForm(i, resp) ==
    /\ replaced' = Null
    /\ i \in InFlight("generateSlogan")
    /\ inflight' = RemoveAt(inflight, i)
    /\ IF SlogansOk(resp)
       THEN /\ slogans' = IF inflight[i].live THEN resp.slogans[1].items ELSE slogans
            /\ toast' = "Slogans generated successfully!"
            /\ UNCHANGED context
       ELSE /\ toast' = IF resp.throws
                        THEN "Failed to generate slogans. Please check your connection."
                        ELSE "Failed to generate slogans. Please try again."
            /\ context' = IF inflight[i].live THEN <<>> ELSE context
            /\ UNCHANGED slogans
    /\ isLoading' = FALSE
    /\ UNCHANGED <<uploadVars, page, forecastResults, forecastVars, imageVars,
                   videoVars, histVars>>

\* handleGenerateSlogans from its await to the end of finally.
generateSloganSettles(i, resp) ==
    /\ replaced' = Null
    /\ i \in InFlight("generateSlogan")
    /\ inflight' = RemoveAt(inflight, i)
    /\ IF SlogansOk(resp)
       THEN /\ slogans' = IF inflight[i].live THEN resp.slogans[1].items ELSE slogans
            /\ toast' = "Slogans generated successfully!"
       ELSE /\ toast' = IF resp.throws
                        THEN "Failed to generate slogans. Please check your connection."
                        ELSE "Failed to generate slogans. Please try again."
            /\ UNCHANGED slogans
    /\ isLoading' = FALSE
    /\ UNCHANGED <<uploadVars, page, forecastResults, forecastVars, imageVars, context,
                   videoVars, histVars>>

\* Variant of the Generate Slogans button that stays enabled while the
\* busy flag is up.
GenerateSlogansButton_noBusy == Truthy(trim(context))

\* The Generate Slogans button's enabled condition.
GenerateSlogansButton == ~(~Truthy(trim(context)) \/ isLoading)

\* ------------------------------------------------------------- YouTubeQA
setYoutubeUrl(v) ==
    /\ replaced' = Null
    /\ page = "YouTubeQA"
    /\ youtubeUrl' = v
    /\ toast' = "none"
    /\ UNCHANGED <<uploadVars, page, ctxVars, forecastVars, imageVars, sloganVars,
                   question, videoInfo, answer, isProcessing, isQuerying,
                   inflight, histVars>>

setQuestion(v) ==
    /\ replaced' = Null
    /\ page = "YouTubeQA"
    /\ question' = v
    /\ toast' = "none"
    /\ UNCHANGED <<uploadVars, page, ctxVars, forecastVars, imageVars, sloganVars,
                   youtubeUrl, videoInfo, answer, isProcessing, isQuerying,
                   inflight, histVars>>

\* Variant of handleProcessVideo without the URL shape test.
handleProcessVideo_noShapeCheck ==
    /\ replaced' = Null
    /\ page = "YouTubeQA"
    /\ IF ~Truthy(trim(youtubeUrl))
       THEN /\ toast' = "Please enter a YouTube URL"
            /\ UNCHANGED <<isProcessing, inflight>>
       ELSE /\ isProcessing' = TRUE
            /\ Dispatch("processVideo", <<>>, youtubeUrl)
            /\ toast' = "none"
    /\ UNCHANGED <<uploadVars, page, ctxVars, forecastVars, imageVars, sloganVars,
                   youtubeUrl, question, videoInfo, answer, isQuerying,
                   histVars>>

\* handleProcessVideo up to its await.
handleProcessVideo ==
    /\ replaced' = Null
    /\ page = "YouTubeQA"
    /\ IF ~Truthy(trim(youtubeUrl))
       THEN /\ toast' = "Please enter a YouTube URL"
            /\ UNCHANGED <<isProcessing, inflight>>
       ELSE IF ~youtubeRegex(youtubeUrl)
       THEN /\ toast' = "Please enter a valid YouTube URL"
            /\ UNCHANGED <<isProcessing, inflight>>
       ELSE /\ isProcessing' = TRUE
            /\ Dispatch("processVideo", <<>>, youtubeUrl)
            /\ toast' = "none"
    /\ UNCHANGED <<uploadVars, page, ctxVars, forecastVars, imageVars, sloganVars,
                   youtubeUrl, question, videoInfo, answer, isQuerying,
                   histVars>>

ProcessOk(resp) == ~resp.throws /\ resp.video_info # Null

\* Variant of processVideoSettles that updates an existing session field
\* by field and keeps its video_id.
processVideoSettles_merges(i, resp) ==
    /\ replaced' = Null
    /\ i \in InFlight("processVideo")
    /\ inflight' = RemoveAt(inflight, i)
    /\ IF ProcessOk(resp)
       THEN /\ videoInfo' =
                    IF ~inflight[i].live THEN videoInfo
                    ELSE IF videoInfo = Null THEN resp.video_info
                    ELSE Some([resp.video_info[1] EXCEPT
                                    !.video_id = videoInfo[1].video_id])
            /\ toast' = "Video processed successfully!"
       ELSE /\ toast' = IF resp.throws
                        THEN "Failed to process video. Please check the URL and try again."
                        ELSE "Failed to process video. Please try again."
            /\ UNCHANGED videoInfo
    /\ isProcessing' = IF inflight[i].live THEN FALSE ELSE isProcessing
    /\ UNCHANGED <<uploadVars, page, ctxVars, forecastVars, imageVars, sloganVars,
                   youtubeUrl, question, answer, isQuerying, histVars>>

\* handleProcessVideo from its await to the end of finally.
processVideoSettles(i, resp) ==
    /\ replaced' = Null
    /\ i \in InFlight("processVideo")
    /\ inflight' = RemoveAt(inflight, i)
    /\ IF ProcessOk(resp)
       THEN /\ videoInfo' = IF inflight[i].live THEN resp.video_info ELSE videoInfo
            /\ toast' = "Video processed successfully!"
       ELSE /\ toast' = IF resp.throws
                        THEN "Failed to process video. Please check the URL and try again."
                        ELSE "Failed to process video. Please try again."
            /\ UNCHANGED videoInfo
    /\ isProcessing' = IF inflight[i].live THEN FALSE ELSE isProcessing
    /\ UNCHANGED <<uploadVars, page, ctxVars, forecastVars, imageVars, sloganVars,
                   youtubeUrl, question, answer, isQuerying, histVars>>

\* Variant of handleAskQuestion without the videoInfo check.
handleAskQuestion_noSessionCheck ==
    /\ replaced' = Null
    /\ page = "YouTubeQA"
    /\ IF ~Truthy(trim(question))
       THEN /\ toast' = "Please enter a question"
            /\ UNCHANGED <<isQuerying, inflight>>
       ELSE /\ isQuerying' = TRUE
            /\ Dispatch("queryVideo", <<>>, question)
            /\ toast' = "none"
    /\ UNCHANGED <<uploadVars, page, ctxVars, forecastVars, imageVars, sloganVars,
                   youtubeUrl, question, videoInfo, answer, isProcessing,
                   histVars>>

\* handleAskQuestion up to its await.
handleAskQuestion ==
    /\ replaced' = Null
    /\ page = "YouTubeQA"
    /\ IF ~Truthy(trim(question))
       THEN /\ toast' = "Please enter a question"
            /\ UNCHANGED <<isQuerying, inflight>>
       ELSE IF videoInfo = Null
       THEN /\ toast' = "Please process a video first"
            /\ UNCHANGED <<isQuerying, inflight>>
       ELSE /\ isQuerying' = TRUE
            /\ Dispatch("queryVideo", <<>>, question)
            /\ toast' = "none"
    /\ UNCHANGED <<uploadVars, page, ctxVars, forecastVars, imageVars, sloganVars,
                   youtubeUrl, question, videoInfo, answer, isProcessing,
                   histVars>>

QueryOk(resp) ==
    ~resp.throws /\ resp.answer # Null /\ Truthy(resp.answer[1])

\* handleAskQuestion from its await to the end of finally.
queryVideoSettles(i, resp) ==
    /\ replaced' = Null
    /\ i \in InFlight("queryVideo")
    /\ inflight' = RemoveAt(inflight, i)
    /\ IF QueryOk(resp)
       THEN /\ answer' = IF inflight[i].live THEN resp.answer[1] ELSE answer
            /\ toast' = "Question answered successfully!"
       ELSE /\ toast' = "Failed to get answer. Please try again."
            /\ UNCHANGED answer
    /\ isQuerying' = IF inflight[i].live THEN FALSE ELSE isQuerying
    /\ UNCHANGED <<uploadVars, page, ctxVars, forecastVars, imageVars, sloganVars,
                   youtubeUrl, question, videoInfo, isProcessing, histVars>>

\* The Process Video button's enabled condition.
ProcessVideoButton == ~(~Truthy(trim(youtubeUrl)) \/ isProcessing)

\* The question card is rendered only with a videoInfo.
QuestionCard == videoInfo # Null

\* The Ask Question button's enabled condition, inside the question card.
AskQuestionButton == QuestionCard /\ ~(~Truthy(trim(question)) \/ isQuerying)

\* ------------------------------------------------------- specifications
\* Edits of the inputs that are always rendered.
Edits ==
    \/ \E t \in {"customers", "campaign"}, sel \in Selections :
            handleFileUpload(t, sel)
    \/ \E v \in TypedTexts : setPrompt(v)
    \/ \E v \in TypedTexts : setContext(v)
    \/ \E v \in TypedUrls : setYoutubeUrl(v)

\* Steps that are the same however the handlers are invoked: input edits
\* and the settling of backend calls.
Environment ==
    \/ Edits
    \/ \E i \in 1..Len(inflight), resp \in ForecastResponses :
            runForecastSettles(i, resp)
    \/ \E i \in 1..Len(inflight), resp \in ImageResponses :
            generateImageSettles(i, resp)
    \/ \E i \in 1..Len(inflight), resp \in SloganResponses :
            generateSloganSettles(i, resp)
    \/ \E i \in 1..Len(inflight), resp \in ProcessResponses :
            processVideoSettles(i, resp)
    \/ \E i \in 1..Len(inflight), resp \in QueryResponses :
            queryVideoSettles(i, resp)

\* A user in the browser: a handler runs only through its button, and a
\* button acts only while rendered and enabled.
clickRunForecast == RunForecastButton /\ handleRunForecast
clickUsePromptFromForecast == UseForecastButton /\ generatePromptFromForecast
clickGenerateImage == GenerateImageButton /\ handleGenerateImage
clickUseContextFromForecast == UseForecastButton /\ generateContextFromForecast
clickGenerateSlogans == GenerateSlogansButton /\ handleGenerateSlogans
clickProcessVideo == ProcessVideoButton /\ handleProcessVideo
clickAskQuestion == AskQuestionButton /\ handleAskQuestion
typeQuestion == \E v \in TypedTexts : QuestionCard /\ setQuestion(v)

Next ==
    \/ \E p \in Pages : Navigate(p)
    \/ Environment
    \/ clickRunForecast
    \/ clickUsePromptFromForecast
    \/ clickGenerateImage
    \/ clickUseContextFromForecast
    \/ clickGenerateSlogans
    \/ clickProcessVideo
    \/ typeQuestion
    \/ clickAskQuestion

Spec == Init /\ [][Next]_vars

\* One page mounted on its own with its handlers called as functions,
\* whatever the buttons show (a component test, or a caller other than
\* the button).
NextDirect ==
    \/ Environment
    \/ \E v \in BlankUrls : setYoutubeUrl(v)
    \/ handleRunForecast
    \/ generatePromptFromForecast
    \/ handleGenerateImage
    \/ generateContextFromForecast
    \/ handleGenerateSlogans
    \/ handleProcessVideo
    \/ \E v \in TypedTexts : setQuestion(v)
    \/ handleAskQuestion

SpecDirect == Init /\ [][NextDirect]_vars

\* ------------------------------------------------------------ the wire
\* One page, opened at its route and used through its buttons, with each
\* backend call followed on the wire: the HTTP reply arrives (or the
\* connection fails) in one step, and the event loop resumes the awaiting
\* handler with the gateway function's outcome in a later one.  A call
\* with no reply stays pending: the axios instance is created without a
\* timeout.  The Use Forecast Data buttons are not rendered here: the
\* store is empty on a page other than Forecast opened on its own.

\* What the gateway function does with the settled api.post: axios
\* rejects on a connection fault and on a status outside 2xx, otherwise
\* the function returns response.data as it is.
post(thrown, r) ==
    IF r.fault \/ ~(r.status >= 200 /\ r.status < 300)
    THEN thrown
    ELSE r.data[1]

\* The outcome of `await <op>(...)` when the call throws.
Thrown(op) ==
    CASE op = "runForecast" ->
            [throws |-> TRUE, status |-> "error", results |-> Null]
      [] op = "generateImage" -> [throws |-> TRUE, image_url |-> Null]
      [] op = "generateSlogan" -> [throws |-> TRUE, slogans |-> Null]
      [] op = "processVideo" -> [throws |-> TRUE, video_info |-> Null]
      [] op = "queryVideo" -> [throws |-> TRUE, answer |-> Null]

\* Response bodies of an operation, as response.data.
Bodies(op) ==
    LET all == CASE op = "runForecast" -> ForecastResponses
                 [] op = "generateImage" -> ImageResponses
                 [] op = "generateSlogan" -> SloganResponses
                 [] op = "processVideo" -> ProcessResponses
                 [] op = "queryVideo" -> QueryResponses
    IN  {d \in all : ~d.throws}

HttpStatuses == {200, 500}

\* What can come back for a call: no HTTP response at all (connection
\* refused or lost), or a response with a status and a body.
Replies(op) ==
    {[fault |-> TRUE, status |-> 0, data |-> Null]}
    \cup [fault : {FALSE}, status : HttpStatuses,
          data : {Some(d) : d \in Bodies(op)}]

backendReplies(i, r) ==
    /\ replaced' = Null
    /\ i \in 1..Len(inflight)
    /\ inflight[i].reply = Null
    /\ r \in Replies(inflight[i].op)
    /\ inflight' = [inflight EXCEPT ![i].reply = Some(r)]
    /\ toast' = "none"
    /\ UNCHANGED <<uploadVars, page, ctxVars, forecastVars, imageVars, sloganVars,
                   videoVars, histVars>>

\* The event loop resumes the handler that awaits call i.
resume(i) ==
    /\ i \in 1..Len(inflight)
    /\ inflight[i].reply # Null
    /\ LET op == inflight[i].op
           resp == post(Thrown(op), inflight[i].reply[1])
       IN  CASE op = "runForecast" -> runForecastSettles(i, resp)
             [] op = "generateImage" -> generateImageSettles(i, resp)
             [] op = "generateSlogan" -> generateSloganSettles(i, resp)
             [] op = "processVideo" -> processVideoSettles(i, resp)
             [] op = "queryVideo" -> queryVideoSettles(i, resp)

Resume == \E i \in 1..Len(inflight) : resume(i)

NextWire ==
    \/ Edits
    \/ clickRunForecast
    \/ clickGenerateImage
    \/ clickGenerateSlogans
    \/ clickProcessVideo
    \/ typeQuestion
    \/ clickAskQuestion
    \/ \E i \in 1..Len(inflight) :
            \E r \in Replies(inflight[i].op) : backendReplies(i, r)
    \/ Resume

\* A settled promise's continuation is always run by the event loop;
\* nothing obliges the backend to answer or the user to act.
SpecWire == Init /\ [][NextWire]_vars /\ WF_vars(Resume)

\* ----------------------------------------------------------- FileUpload
\* The FileUpload widget of components/ui/file-upload.tsx, mounted by an
\* owner that keeps the file handed to its onFileSelect callback.

\* Files a user can pick or drop: sizes around the 1 MB and 10 MB limits,
\* with a .csv or a .txt name.
UploadFiles ==
    [size : {2048, MB, MB + 1, 10 * MB, 10 * MB + 1},
     ext : {<<".","c","s","v">>, <<".","t","x","t">>}]

\* e.dataTransfer.files: nothing, one file, or a file followed by another.
Drops ==
    {<<>>}
    \cup {<<f>> : f \in UploadFiles}
    \cup {<<f, [size |-> 2048, ext |-> <<".","c","s","v">>]>> :
            f \in UploadFiles}

\* Props an owner can mount the widget with.
AcceptValues == {<<".","c","s","v">>, <<".","t","x","t">>}
MaxSizeValues == {1, 10}

sizeError(m) ==
    <<"F","i","l","e"," ","s","i","z","e"," ","m","u","s","t"," ","b","e",
      " ","l","e","s","s"," ","t","h","a","n"," ">>
    \o NumToStr(m) \o <<"M","B">>

\* Variant of handleFileSelect that also rejects a file of exactly the
\* limit.
handleFileSelect_rejectsAtLimit(file) ==
    IF file.size >= maxSize * 1024 * 1024
    THEN /\ error' = Some(sizeError(maxSize))
         /\ UNCHANGED <<selectedFile, ownerFile>>
    ELSE /\ error' = Null
         /\ selectedFile' = Some(file)
         /\ ownerFile' = Some(file)

\* The state handleFileSelect(file) leaves behind.
handleFileSelect(file) ==
    IF file.size > maxSize * 1024 * 1024
    THEN /\ error' = Some(sizeError(maxSize))
         /\ UNCHANGED <<selectedFile, ownerFile>>
    ELSE /\ error' = Null
         /\ selectedFile' = Some(file)
         /\ ownerFile' = Some(file)

handleDrop(files) ==
    /\ isDragOver' = FALSE
    /\ IF Len(files) > 0
       THEN handleFileSelect(files[1])
       ELSE UNCHANGED <<selectedFile, error, ownerFile>>
    /\ UNCHANGED <<accept, maxSize, appVars>>

handleDragOver ==
    /\ isDragOver' = TRUE
    /\ UNCHANGED <<accept, maxSize, selectedFile, error, ownerFile, appVars>>

handleDragLeave ==
    /\ isDragOver' = FALSE
    /\ UNCHANGED <<accept, maxSize, selectedFile, error, ownerFile, appVars>>

\* The hidden input's change event.  The label that opens the picker is
\* rendered only while no file is selected; the accept attribute is a
\* hint to the picker, which lets the user choose any file.
handleInputChange(sel) ==
    /\ selectedFile = Null
    /\ IF sel # Null
       THEN handleFileSelect(sel[1])
       ELSE UNCHANGED <<selectedFile, error, ownerFile>>
    /\ UNCHANGED <<accept, maxSize, isDragOver, appVars>>

\* The X button, rendered only while a file is selected.
clearFile ==
    /\ selectedFile # Null
    /\ selectedFile' = Null
    /\ error' = Null
    /\ UNCHANGED <<accept, maxSize, isDragOver, ownerFile, appVars>>

InitUpload ==
    /\ \E a \in AcceptValues, m \in MaxSizeValues : FileUploadInit(a, m)
    /\ page = "Dashboard"
    /\ forecastResults = Null
    /\ isLoading = FALSE
    /\ customersFile = Null
    /\ campaignHistoryFile = Null
    /\ prompt = <<>>
    /\ generatedImage = Null
    /\ context = <<>>
    /\ slogans = <<>>
    /\ youtubeUrl = <<>>
    /\ question = <<>>
    /\ videoInfo = Null
    /\ answer = <<>>
    /\ isProcessing = FALSE
    /\ isQuerying = FALSE
    /\ inflight = <<>>
    /\ toast = "none"
    /\ latestSucc = Null
    /\ lastReturned = Null
    /\ replaced = Null

NextUpload ==
    \/ \E files \in Drops : handleDrop(files)
    \/ handleDragOver
    \/ handleDragLeave
    \/ \E sel \in {Null} \cup {Some(f) : f \in UploadFiles} :
            handleInputChange(sel)
    \/ clearFile

SpecUpload == InitUpload /\ [][NextUpload]_vars

TypeOK ==
    /\ page \in Pages
    /\ isLoading \in BOOLEAN
    /\ forecastResults \in {Null} \cup {Some(v) : v \in ResultValues}
    /\ Len(inflight) <= MaxInFlight

\* ------------------------------------------------------------ properties
FailureToasts ==
    {"Failed to run forecast. Please check your connection.",
     "Forecast failed. Please try again."}

SharedFlagOps == {"runForecast", "generateImage", "generateSlogan"}
VideoOps == {"processVideo", "queryVideo"}
Ops == SharedFlagOps \cup VideoOps

\* C1: in every state reachable through the buttons, the stored forecast
\* is the result of the latest-submitted forecast run among those that
\* succeeded (null while none has): no response of an older submission
\* replaces the result of a newer one.
C1_LastSubmissionWins == forecastResults = latestSucc

\* C1 case: a second successful run has replaced the first run's result.
C1_Witness ==
    /\ toast = "Forecast completed successfully!"
    /\ replaced # Null
    /\ forecastResults # replaced
    /\ forecastResults = latestSucc

\* C2: no forecast request that is issued carries a file larger than the
\* 10 MB limit.
C2_NoOversizedFileIsSent ==
    \A i \in InFlight("runForecast") :
        \A k \in 1..Len(inflight[i].files) :
            inflight[i].files[k].size <= 10 * MB

\* C3: a submit handler that runs while a request of its own operation is
\* pending issues no call and changes neither its page's state nor the
\* busy flag.
C3_SubmitWhileInFlightIsNoOp ==
    [][/\ (handleRunForecast /\ Count(inflight, "runForecast") > 0)
            => UNCHANGED <<inflight, forecastVars, ctxVars>>
       /\ (handleGenerateImage /\ Count(inflight, "generateImage") > 0)
            => UNCHANGED <<inflight, imageVars, ctxVars>>
       /\ (handleGenerateSlogans /\ Count(inflight, "generateSlogan") > 0)
            => UNCHANGED <<inflight, sloganVars, ctxVars>>
       /\ (handleProcessVideo /\ Count(inflight, "processVideo") > 0)
            => UNCHANGED <<inflight, videoVars, ctxVars>>
       /\ (handleAskQuestion /\ Count(inflight, "queryVideo") > 0)
            => UNCHANGED <<inflight, videoVars, ctxVars>>]_vars

\* C4: when a forecast request settles with a thrown fault, a status other
\* than "success" or no results, the stored forecast is left as it is, and
\* that is what it was when the request was submitted.
C4_FailureKeepsStore ==
    [][Len(inflight') < Len(inflight)
        => \A i \in InFlight("runForecast"), resp \in ForecastResponses :
              (~ForecastOk(resp) /\ runForecastSettles(i, resp))
                => /\ forecastResults' = forecastResults
                   /\ forecastResults' = inflight[i].snap]_vars

\* C4 case: a run has just failed after an earlier run stored a result.
C4_Witness == toast \in FailureToasts /\ forecastResults # Null

\* C5: a queryVideo call is issued only while videoInfo is set; a run of
\* handleAskQuestion with videoInfo null issues no call, leaves answer and
\* isQuerying unchanged and raises an error toast, which for a non-blank
\* question is the missing-video one.
C5_QueryNeedsSession ==
    [][/\ Count(inflight', "queryVideo") > Count(inflight, "queryVideo")
            => videoInfo # Null
       /\ (handleAskQuestion /\ videoInfo = Null)
            => /\ UNCHANGED <<inflight, answer, isQuerying>>
               /\ toast' \in {"Please enter a question",
                              "Please process a video first"}
               /\ Truthy(trim(question))
                    => toast' = "Please process a video first"]_vars

\* C5 case: a question has just been asked with no video processed.
C5_Witness ==
    /\ toast = "Please process a video first"
    /\ videoInfo = Null
    /\ Truthy(trim(question))
    /\ Count(inflight, "queryVideo") = 0

\* C6 as stated: every step that adds a pending call, of any of the five
\* operations, sets isLoading, and every step that removes one clears it.
C6_EveryControllerDrivesBusyFlag ==
    [][/\ (\E op \in Ops : Count(inflight', op) > Count(inflight, op))
            => isLoading'
       /\ (\E op \in Ops : Count(inflight', op) < Count(inflight, op))
            => ~isLoading']_vars

\* C6 amended: a step that adds a pending forecast, image or slogan call
\* sets isLoading and a step that removes one clears it; a step that adds
\* or removes a pending video call leaves isLoading unchanged, and
\* dispatching one sets the page's own isProcessing or isQuerying.
C6_SharedFlagControllersDriveBusyFlag ==
    [][inflight' # inflight
        => /\ (\E op \in SharedFlagOps :
                    Count(inflight', op) > Count(inflight, op))
                => isLoading'
           /\ (\E op \in SharedFlagOps :
                    Count(inflight', op) < Count(inflight, op))
                => ~isLoading'
           /\ (\E op \in VideoOps :
                    Count(inflight', op) # Count(inflight, op))
                => UNCHANGED isLoading
           /\ Count(inflight', "processVideo")
                    > Count(inflight, "processVideo")
                => isProcessing'
           /\ Count(inflight', "queryVideo") > Count(inflight, "queryVideo")
                => isQuerying']_vars

\* C6 case: a video ingestion is pending under the page's own flag while
\* the global flag is down.
C6_Witness ==
    /\ Count(inflight, "processVideo") > 0
    /\ isProcessing
    /\ ~isLoading

\* C7 as stated: a pending forecast does not stand in the way of an image
\* submission: with a forecast pending and a non-blank prompt typed on the
\* ImageGenerator page, the Generate Image button is enabled.
C7_ForecastDoesNotBlockImage ==
    (/\ Count(inflight, "runForecast") > 0
     /\ page = "ImageGenerator"
     /\ Truthy(trim(prompt)))
        => GenerateImageButton

\* C7 amended: through the buttons a forecast call and an image call are
\* never pending together.
C7_ButtonsExcludeForecastAndImage ==
    ~(Count(inflight, "runForecast") > 0 /\ Count(inflight, "generateImage") > 0)

\* C7 case: a forecast is pending and the user has a prompt ready on the
\* ImageGenerator page, whose button is disabled.
C7_Witness ==
    /\ Count(inflight, "runForecast") > 0
    /\ page = "ImageGenerator"
    /\ Truthy(trim(prompt))
    /\ ~GenerateImageButton

\* C8: the mounted page controller has at most one of its own calls
\* pending; the YouTubeQA page never has an ingestion and a query of its
\* own pending together.
C8_OneRequestPerController ==
    /\ LiveCount(inflight, "runForecast") <= 1
    /\ LiveCount(inflight, "generateImage") <= 1
    /\ LiveCount(inflight, "generateSlogan") <= 1
    /\ LiveCount(inflight, "processVideo")
         + LiveCount(inflight, "queryVideo") <= 1

\* C9: the store holds exactly the results value of the forecast response
\* that succeeded last, whatever it held before, and null while no
\* response has succeeded.
C9_StoreIsLastSuccessfulResponse == forecastResults = lastReturned

\* C9 case: a successful response has replaced a different stored result.
C9_Witness ==
    /\ forecastResults = Some(ResultB)
    /\ replaced = Some(ResultA)

\* C10: only the Forecast controller writes the store: every step that
\* changes the stored forecast is the settling of a runForecast call, so
\* every step of the ImageGenerator, SloganGenerator and YouTubeQA pages
\* and every route change leaves it unchanged.
C10_OnlyForecastWritesStore ==
    [][forecastResults' # forecastResults
        => \E i \in InFlight("runForecast"), resp \in ForecastResponses :
                runForecastSettles(i, resp)]_vars

\* C10 case: the ImageGenerator page has filled its prompt from a stored
\* forecast.
C10_Witness ==
    /\ page = "ImageGenerator"
    /\ forecastResults # Null
    /\ prompt = campaignPrompt(forecastResults[1])

\* The input of an operation's submit handler passes the handler's own
\* checks on the mounted page.
PassesValidation(op) ==
    CASE op = "runForecast" ->
            /\ page = "Forecast"
            /\ customersFile # Null /\ campaignHistoryFile # Null
      [] op = "generateImage" ->
            page = "ImageGenerator" /\ Truthy(trim(prompt))
      [] op = "generateSlogan" ->
            page = "SloganGenerator" /\ Truthy(trim(context))
      [] op = "processVideo" ->
            /\ page = "YouTubeQA"
            /\ Truthy(trim(youtubeUrl)) /\ youtubeRegex(youtubeUrl)
      [] op = "queryVideo" ->
            /\ page = "YouTubeQA"
            /\ Truthy(trim(question)) /\ videoInfo # Null

\* The submit handler of an operation, up to its await.
Submit(op) ==
    CASE op = "runForecast" -> handleRunForecast
      [] op = "generateImage" -> handleGenerateImage
      [] op = "generateSlogan" -> handleGenerateSlogans
      [] op = "processVideo" -> handleProcessVideo
      [] op = "queryVideo" -> handleAskQuestion

AllFailureToasts ==
    FailureToasts
    \cup {"Failed to generate image. Please check your connection.",
          "Failed to generate image. Please try again.",
          "Failed to generate slogans. Please check your connection.",
          "Failed to generate slogans. Please try again.",
          "Failed to process video. Please check the URL and try again.",
          "Failed to process video. Please try again.",
          "Failed to get answer. Please try again."}

C12_GatewayThrowsOnlyOnTransportFault ==
    \A i \in 1..Len(inflight) :
        (inflight[i].reply # Null /\ ~inflight[i].reply[1].fault)
            => ~post(Thrown(inflight[i].op), inflight[i].reply[1]).throws

\* C14: every call that is pending is eventually no longer pending, and
\* a busy flag that is up eventually comes down, whether or not the
\* backend answers.
C14_EveryRequestEventuallySettles ==
    /\ \A op \in Ops :
            (Count(inflight, op) > 0) ~> (Count(inflight, op) = 0)
    /\ isLoading ~> ~isLoading
    /\ isProcessing ~> ~isProcessing
    /\ isQuerying ~> ~isQuerying

\* C13 as stated: an ingestion call is issued only for a URL that starts
\* with http:// or https://, then an optional www., then
\* youtube.com/watch?v= or youtu.be/ and at least one word or hyphen
\* character; a run of handleProcessVideo on any other URL issues no
\* call, leaves videoInfo and isProcessing unchanged and raises an error
\* toast.
C13_OnlySchemeUrlsAreIngested ==
    [][LET
        http == <<"h","t","t","p",":","/","/">>
        https == <<"h","t","t","p","s",":","/","/">>
        www == <<"w","w","w",".">>
        watch == <<"y","o","u","t","u","b","e",".","c","o","m","/",
                   "w","a","t","c","h","?","v","=">>
        short == <<"y","o","u","t","u",".","b","e","/">>
        Shape(u) ==
            \E a \in {http, https}, w \in {<<>>, www}, h \in {watch, short} :
                /\ HasAt(u, 1, a \o w \o h)
                /\ Len(u) > Len(a \o w \o h)
                /\ u[Len(a \o w \o h) + 1] \in WordChars \cup {"-"}
    IN     /\ (inflight' # inflight
                /\ Count(inflight', "processVideo")
                        > Count(inflight, "processVideo"))
                => /\ Shape(youtubeUrl)
                   /\ inflight'[Len(inflight')].text = youtubeUrl
           /\ (page = "YouTubeQA" /\ UNCHANGED youtubeUrl
                    /\ Len(inflight') >= Len(inflight)
                    /\ ~Shape(youtubeUrl) /\ handleProcessVideo)
                => /\ UNCHANGED <<inflight, videoInfo, isProcessing>>
                   /\ toast' \in {"Please enter a YouTube URL",
                                  "Please enter a valid YouTube URL"}]_vars

\* C13 amended: the same with the scheme optional: the URL starts with an
\* optional http:// or https://, then an optional www., then
\* youtube.com/watch?v= or youtu.be/ and at least one word or hyphen
\* character.
C13_OnlyYoutubeUrlsAreIngested ==
    [][LET
        http == <<"h","t","t","p",":","/","/">>
        https == <<"h","t","t","p","s",":","/","/">>
        www == <<"w","w","w",".">>
        watch == <<"y","o","u","t","u","b","e",".","c","o","m","/",
                   "w","a","t","c","h","?","v","=">>
        short == <<"y","o","u","t","u",".","b","e","/">>
        Shape(u) ==
            \E a \in {<<>>, http, https}, w \in {<<>>, www}, h \in {watch, short} :
                /\ HasAt(u, 1, a \o w \o h)
                /\ Len(u) > Len(a \o w \o h)
                /\ u[Len(a \o w \o h) + 1] \in WordChars \cup {"-"}
    IN     /\ (inflight' # inflight
                /\ Count(inflight', "processVideo")
                        > Count(inflight, "processVideo"))
                => /\ Shape(youtubeUrl)
                   /\ inflight'[Len(inflight')].text = youtubeUrl
           /\ (page = "YouTubeQA" /\ UNCHANGED youtubeUrl
                    /\ Len(inflight') >= Len(inflight)
                    /\ ~Shape(youtubeUrl) /\ handleProcessVideo)
                => /\ UNCHANGED <<inflight, videoInfo, isProcessing>>
                   /\ toast' \in {"Please enter a YouTube URL",
                                  "Please enter a valid YouTube URL"}]_vars

\* C13 case: a URL of another site has just been refused.
C13_Witness ==
    /\ toast = "Please enter a valid YouTube URL"
    /\ youtubeUrl = UrlOther
    /\ Count(inflight, "processVideo") = 0
    /\ ~isProcessing

\* C15: a forecast call is issued only with both files held, and carries
\* those two files; a run of handleRunForecast with a file missing issues
\* no call and leaves the store and the busy flag unchanged; a selection
\* event with no file leaves both held files unchanged, raises no toast,
\* issues no call and does not change whether Run Forecast is enabled.
C15_ForecastNeedsBothFiles ==
    [][/\ (inflight' # inflight
            /\ Count(inflight', "runForecast")
                    > Count(inflight, "runForecast"))
            => /\ customersFile # Null
               /\ campaignHistoryFile # Null
               /\ inflight'[Len(inflight')].files
                    = <<customersFile[1], campaignHistoryFile[1]>>
       /\ (/\ page = "Forecast"
           /\ customersFile = Null \/ campaignHistoryFile = Null
           /\ handleRunForecast)
            => UNCHANGED <<inflight, ctxVars>>
       /\ \A t \in {"customers", "campaign"} :
            (page = "Forecast" /\ handleFileUpload(t, Null))
                => /\ UNCHANGED <<forecastVars, inflight>>
                   /\ toast' = "none"
                   /\ RunForecastButton' = RunForecastButton]_vars

\* C15 case: Run Forecast has just been refused with one file held and
\* the other missing.
C15_Witness ==
    /\ toast = "Please upload both CSV files"
    /\ customersFile # Null
    /\ campaignHistoryFile = Null
    /\ Count(inflight, "runForecast") = 0
    /\ ~isLoading

\* C16: a run of generatePromptFromForecast or
\* generateContextFromForecast with the store empty raises the
\* no-forecast error toast and leaves the page's input and result, the
\* busy flag, the store and the pending calls unchanged.
C16_UseForecastWithoutResultIsReported ==
    [][/\ (/\ page = "ImageGenerator"
           /\ forecastResults = Null
           /\ generatePromptFromForecast)
            => /\ toast' = "No forecast results available. Please run a forecast first."
               /\ UNCHANGED <<imageVars, ctxVars, inflight>>
       /\ (/\ page = "SloganGenerator"
           /\ forecastResults = Null
           /\ generateContextFromForecast)
            => /\ toast' = "No forecast results available. Please run a forecast first."
               /\ UNCHANGED <<sloganVars, ctxVars, inflight>>]_vars

\* C16 case: the slogan page's use-forecast-data action has just been
\* refused with a context typed and the store empty.
C16_Witness ==
    /\ toast = "No forecast results available. Please run a forecast first."
    /\ page = "SloganGenerator"
    /\ forecastResults = Null
    /\ context = <<"a", "d">>

\* C17: when generatePromptFromForecast or generateContextFromForecast
\* runs with a stored forecast, the text it writes into the prompt or the
\* context contains the stored recommended_campaign_type,
\* recommended_offer and campaign_details.target, each as a contiguous
\* substring.
C17_UseForecastTextContainsFields ==
    [][/\ (/\ page = "ImageGenerator"
           /\ forecastResults # Null
           /\ generatePromptFromForecast)
            => /\ Contains(prompt',
                           forecastResults[1].recommended_campaign_type)
               /\ Contains(prompt', forecastResults[1].recommended_offer)
               /\ Contains(prompt',
                           forecastResults[1].campaign_details.target)
       /\ (/\ page = "SloganGenerator"
           /\ forecastResults # Null
           /\ generateContextFromForecast)
            => /\ Contains(context',
                           forecastResults[1].recommended_campaign_type)
               /\ Contains(context', forecastResults[1].recommended_offer)
               /\ Contains(context',
                           forecastResults[1].campaign_details.target)]_vars

\* C17 case: the slogan page has filled its context from a stored
\* forecast.
C17_Witness ==
    /\ page = "SloganGenerator"
    /\ forecastResults # Null
    /\ Contains(context, forecastResults[1].campaign_details.target)
    /\ Contains(context, <<"B","u","d","g","e","t",":"," ","$">>)

\* C18: a dropped file whose extension is not the accepted one does not
\* become the selected file and is not handed to the owner.
C18_DroppedFileOfOtherTypeIsRejected ==
    [][\A files \in Drops :
            (/\ Len(files) > 0
             /\ files[1].ext # accept
             /\ handleDrop(files))
                => UNCHANGED <<selectedFile, ownerFile>>]_vars

\* Toasts of the local checks of the five submit handlers.
RejectToasts ==
    {"Please upload both CSV files",
     "Please enter a prompt for image generation",
     "Please enter context for slogan generation",
     "Please enter a YouTube URL",
     "Please enter a valid YouTube URL",
     "Please enter a question",
     "Please process a video first"}

\* Toasts a handler raises when its request has failed.
FailureToastsOf(op) ==
    CASE op = "runForecast" -> FailureToasts
      [] op = "generateImage" ->
            {"Failed to generate image. Please check your connection.",
             "Failed to generate image. Please try again."}
      [] op = "generateSlogan" ->
            {"Failed to generate slogans. Please check your connection.",
             "Failed to generate slogans. Please try again."}
      [] op = "processVideo" ->
            {"Failed to process video. Please check the URL and try again.",
             "Failed to process video. Please try again."}
      [] op = "queryVideo" -> {"Failed to get answer. Please try again."}

\* The enabled condition of an operation's submit button.
SubmitButton(op) ==
    CASE op = "runForecast" -> RunForecastButton
      [] op = "generateImage" -> GenerateImageButton
      [] op = "generateSlogan" -> GenerateSlogansButton
      [] op = "processVideo" -> ProcessVideoButton
      [] op = "queryVideo" -> AskQuestionButton

\* C19: a failure leaves the form as it is.  A step that raises a
\* validation or request-failure toast changes none of the input fields
\* (the two files, the prompt, the context, the video URL, the question);
\* neither does any step that issues or settles a call on the mounted
\* page; and when a request of the mounted page instance has just failed
\* and its inputs still pass the handler's checks, its submit button is
\* enabled again.
C19_FailureKeepsForm ==
    [][/\ toast' \in RejectToasts \cup AllFailureToasts
            => UNCHANGED inputVars
       /\ (inflight' # inflight /\ page' = page)
            => UNCHANGED inputVars
       /\ toast' \in AllFailureToasts
            => \A i \in 1..Len(inflight), op \in Ops :
                  (/\ inflight[i].op = op
                   /\ inflight[i].live
                   /\ inflight' = RemoveAt(inflight, i)
                   /\ toast' \in FailureToastsOf(op)
                   /\ PassesValidation(op)')
                    => SubmitButton(op)']_vars

\* C19 case: a slogan request has just failed and the typed context is
\* still in the field, ready to be submitted again.
C19_Witness ==
    /\ toast = "Failed to generate slogans. Please try again."
    /\ page = "SloganGenerator"
    /\ context = <<"a", "d">>
    /\ GenerateSlogansButton

\* C20: when an ingestion issued by the mounted page succeeds, videoInfo
\* becomes the response's video_info as a whole, whatever it held; when
\* an ingestion fails (a thrown fault or no video_info), videoInfo is
\* left as it is.
C20_IngestionReplacesSession ==
    [][Len(inflight') < Len(inflight)
        => \A i \in InFlight("processVideo"), resp \in ProcessResponses :
              processVideoSettles(i, resp)
                => /\ (ProcessOk(resp) /\ inflight[i].live)
                        => videoInfo' = resp.video_info
                   /\ ~ProcessOk(resp) => videoInfo' = videoInfo]_vars

\* C20 case: an ingestion has just failed on a page that holds the
\* session of an earlier one.
C20_Witness ==
    /\ toast = "Failed to process video. Please try again."
    /\ videoInfo = Some(VideoA)
    /\ ~isProcessing

\* C21: a run of a submit handler on a text input that is empty or only
\* white space (the prompt, the context, the video URL, the question)
\* raises a validation toast, issues no call and leaves the busy flags
\* and the shown results (image, slogans, video session, answer)
\* unchanged.
C21_BlankInputIsRejected ==
    [][/\ (/\ page = "ImageGenerator"
           /\ ~Truthy(trim(prompt))
           /\ handleGenerateImage)
            => /\ toast' = "Please enter a prompt for image generation"
               /\ UNCHANGED <<inflight, ctxVars, imageVars>>
       /\ (/\ page = "SloganGenerator"
           /\ ~Truthy(trim(context))
           /\ handleGenerateSlogans)
            => /\ toast' = "Please enter context for slogan generation"
               /\ UNCHANGED <<inflight, ctxVars, sloganVars>>
       /\ (/\ page = "YouTubeQA"
           /\ ~Truthy(trim(youtubeUrl))
           /\ handleProcessVideo)
            => /\ toast' = "Please enter a YouTube URL"
               /\ UNCHANGED <<inflight, ctxVars, videoVars>>
       /\ (/\ page = "YouTubeQA"
           /\ ~Truthy(trim(question))
           /\ handleAskQuestion)
            => /\ toast' = "Please enter a question"
               /\ UNCHANGED <<inflight, ctxVars, videoVars>>]_vars

\* C21 case: a question of white space only has just been refused on a
\* page that shows the answer to an earlier question.
C21_Witness ==
    /\ toast = "Please enter a question"
    /\ question = <<" ">>
    /\ videoInfo # Null
    /\ answer # <<>>
    /\ ~isQuerying
    /\ Count(inflight, "queryVideo") = 0

\* C22: when an image response arrives without an image_url, or the call
\* throws, the handler raises a failure toast and the shown image stays
\* as it was; and every step that changes the shown image is the
\* arrival of a response that carries an image_url, which the shown
\* image then equals.
C22_ImageChangesOnlyToReference ==
    [][/\ Len(inflight') < Len(inflight)
            => \A i \in InFlight("generateImage"), resp \in ImageResponses :
                  ((resp.throws \/ resp.image_url = Null)
                        /\ generateImageSettles(i, resp))
                    => /\ generatedImage' = generatedImage
                       /\ toast' \in FailureToastsOf("generateImage")
       /\ generatedImage' # generatedImage
            => \E i \in InFlight("generateImage"), resp \in ImageResponses :
                  /\ ~resp.throws
                  /\ resp.image_url # Null
                  /\ generateImageSettles(i, resp)
                  /\ generatedImage' = resp.image_url]_vars

\* C22 case: a response without an image_url has just arrived on a page
\* that shows an earlier image.
C22_Witness ==
    /\ toast = "Failed to generate image. Please try again."
    /\ page = "ImageGenerator"
    /\ generatedImage = Some(<<"u","1">>)

\* C23: when a slogan response arrives whose slogans field is an array,
\* empty or not, the handler raises the success toast and the stored
\* list becomes that array, in its order, whatever was stored; when the
\* field is missing or not an array, or the call throws, the handler
\* raises a failure toast and the stored list stays as it was.
C23_SloganArrayIsStoredAsReceived ==
    [][Len(inflight') < Len(inflight)
        => \A i \in InFlight("generateSlogan"), resp \in SloganResponses :
              (inflight[i].live /\ generateSloganSettles(i, resp))
                => IF /\ ~resp.throws
                      /\ resp.slogans # Null
                      /\ resp.slogans[1].isArray
                   THEN /\ toast' = "Slogans generated successfully!"
                        /\ slogans' = resp.slogans[1].items
                   ELSE /\ toast' \in FailureToastsOf("generateSlogan")
                        /\ slogans' = slogans]_vars

\* C23 case: a response with an empty slogans array has just been taken
\* as a success and the list shown is empty.
C23_Witness ==
    /\ toast = "Slogans generated successfully!"
    /\ page = "SloganGenerator"
    /\ slogans = <<>>

\* C24: the use-forecast-data action of the Image page overwrites the
\* prompt, whatever was typed, with a text fixed by the stored result's
\* campaign type, offer and target alone: it is the text that any other
\* result the backend can return with the same three fields would give,
\* whatever its probability, segment count, budget or discount.
C24_PromptDependsOnThreeFieldsOnly ==
    [][(forecastResults # Null /\ generatePromptFromForecast)
        => \A other \in ResultValues :
              (/\ other.recommended_campaign_type
                    = forecastResults[1].recommended_campaign_type
               /\ other.recommended_offer = forecastResults[1].recommended_offer
               /\ other.campaign_details.target
                    = forecastResults[1].campaign_details.target)
                => prompt' = campaignPrompt(other)]_vars

\* C24 case: the stored result is ResultC, and the prompt is the text
\* that ResultA, equal to it in the three fields only, gives.
C24_Witness ==
    /\ page = "ImageGenerator"
    /\ forecastResults = Some(ResultC)
    /\ prompt = campaignPrompt(ResultA)

\* C25: with limit maxSize megabytes, a dropped or picked file of exactly
\* maxSize*1024*1024 bytes becomes the selected file, reaches the owner
\* and leaves no error; a file one byte larger raises the size error and
\* leaves the selected file and the owner's file as they were.
C25_SizeLimitIsInclusive ==
    [][\A f \in UploadFiles :
          (\/ \E files \in Drops :
                  Len(files) > 0 /\ files[1] = f /\ handleDrop(files)
           \/ handleInputChange(Some(f)))
            => /\ f.size = maxSize * MB
                    => /\ selectedFile' = Some(f)
                       /\ ownerFile' = Some(f)
                       /\ error' = Null
               /\ f.size = maxSize * MB + 1
                    => /\ selectedFile' = selectedFile
                       /\ ownerFile' = ownerFile
                       /\ error' = Some(sizeError(maxSize))]_vars

\* C25 case: a file of exactly the limit was accepted, and a later drop
\* of a larger file was refused and left it selected.
C25_Witness ==
    /\ selectedFile # Null
    /\ selectedFile[1].size = maxSize * MB
    /\ ownerFile = selectedFile
    /\ error = Some(sizeError(maxSize))

\* C26: with submissions made through the buttons, isLoading is true in
\* exactly the states where a forecast, image or slogan call is pending.
C26_BusyFlagTracksSharedCalls ==
    isLoading <=> (\E op \in SharedFlagOps : Count(inflight, op) > 0)

\* C26 case: a slogan call is pending under the raised flag after its
\* page was left, and the flag keeps the Run Forecast button disabled.
C26_Witness ==
    /\ isLoading
    /\ Count(inflight, "generateSlogan") = 1
    /\ page = "Forecast"
    /\ customersFile # Null
    /\ campaignHistoryFile # Null
    /\ ~RunForecastButton

\* C27: the answer on display belongs to the video session on display: a
\* step that changes the session leaves no answer behind, and an answer
\* that arrives is shown only if its question was submitted under the
\* session that is on display when it arrives.
C27_AnswerBelongsToCurrentSession ==
    [][/\ videoInfo' # videoInfo => answer' = <<>>
       /\ Len(inflight') < Len(inflight)
            => \A i \in InFlight("queryVideo"), resp \in QueryResponses :
                  (/\ inflight[i].live
                   /\ QueryOk(resp)
                   /\ queryVideoSettles(i, resp))
                    => inflight[i].snap = videoInfo']_vars

\* C28: when the response of a forecast call arrives after the Forecast
\* page that issued it was unmounted, the busy flag is cleared and, if the
\* response is a success, its results become the stored forecast, with
\* the success toast raised, whichever page is mounted, and the mounted
\* page stays.
C28_DetachedForecastStillCompletes ==
    [][Len(inflight') < Len(inflight)
        => \A i \in InFlight("runForecast"), resp \in ForecastResponses :
              (~inflight[i].live /\ runForecastSettles(i, resp))
                => /\ ~isLoading'
                   /\ page' = page
                   /\ (~resp.throws /\ resp.status = "success"
                            /\ resp.results # Null)
                        => /\ forecastResults' = resp.results
                           /\ toast' = "Forecast completed successfully!"]_vars

\* C28 case: a forecast has just succeeded while another page than
\* Forecast is mounted, and its results are in the store with the flag
\* down.
C28_Witness ==
    /\ toast = "Forecast completed successfully!"
    /\ page \in {"ImageGenerator", "YouTubeQA"}
    /\ forecastResults = lastReturned
    /\ forecastResults # Null
    /\ ~isLoading
    /\ inflight = <<>>

\* C29: the stored forecast is absent at the start, and once present it
\* is never absent again: no step, be it a submission, a failure, a
\* navigation or an action of another page, takes it back to null.
C29_StorePresenceIsMonotone ==
    /\ forecastResults = Null
    /\ [][forecastResults # Null => forecastResults' # Null]_vars

\* C29 case: the stored forecast has outlived a navigation to the
\* YouTubeQA page and that page's ingestion and question.
C29_Witness ==
    /\ forecastResults # Null
    /\ page = "YouTubeQA"
    /\ videoInfo # Null
    /\ answer # <<>>

\* C30: whenever the widget shows no selected file, at the start or
\* after clearFile, the owner holds no file delivered through
\* onFileSelect.
C30_ClearedFileLeavesOwner == selectedFile = Null => ownerFile = Null

====
